---- MODULE Spec2Model ----
(***************************************************************************)
(* The statistics engine of padel-analytics (src/produce-match-stats.py).  *)
(* A data frame is a sequence of records, one record per row, one field    *)
(* per column.  Every function of the engine is an operator that computes  *)
(* its result frame the way the pandas code does; main() is the state      *)
(* machine that reads the two silver tables, calls build_stats, stores the *)
(* result in gold.match_stats and exports it to the worksheet.  The jobs   *)
(* that fill the tables it reads (src/get-matches.py and                   *)
(* src/transform-match-data.py) are followed in incremental mode.          *)
(***************************************************************************)
EXTENDS Integers, Sequences, FiniteSets, TLC

\* ------------------------------------------------------------------------
\* Bounds of the model
\* ------------------------------------------------------------------------
MaxMatches == 2
MaxRows == 3
MaxMatchId == 2
MaxSetNumber == 2
MaxGameNumber == 2
MaxPointNumber == 2

\* ------------------------------------------------------------------------
\* Values
\* ------------------------------------------------------------------------
\* pandas' missing value: what a left merge puts in the right-hand columns
\* of a left row without a partner, and what to_numeric(errors="coerce")
\* gives for a token that is no number.  Counts and scores are >= 0, so -1
\* is free to stand for it; it is only ever tested on a column value or on
\* a coerced token, never on the result of an arithmetic expression.
NaN == -1

\* pd.to_numeric(column, errors="coerce") on one token.
to_numeric(tok) ==
    CASE tok = "0" -> 0 [] tok = "1" -> 1 [] tok = "2" -> 2 [] tok = "3" -> 3
      [] tok = "4" -> 4 [] tok = "5" -> 5 [] tok = "6" -> 6 [] tok = "7" -> 7
      [] tok = "8" -> 8 [] tok = "9" -> 9 [] tok = "15" -> 15
      [] tok = "30" -> 30 [] tok = "40" -> 40
      [] OTHER -> NaN

\* ------------------------------------------------------------------------
\* Data-frame helpers (pandas operations used by the engine)
\* ------------------------------------------------------------------------
RECURSIVE Concat(_)
Concat(ss) == IF ss = <<>> THEN <<>> ELSE Head(ss) \o Concat(Tail(ss))

\* The elements of a finite set of integers in ascending order
\* (groupby sorts its group keys).
RECURSIVE SortedSeq(_)
SortedSeq(S) ==
    IF S = {} THEN <<>>
    ELSE LET m == CHOOSE x \in S : \A y \in S : x <= y
         IN  <<m>> \o SortedSeq(S \ {m})

\* Lexicographic order on (match_id, set_number, game_number, point_number).
KeyLess(a, b) ==
    \/ a.match_id < b.match_id
    \/ /\ a.match_id = b.match_id
       /\ \/ a.set_number < b.set_number
          \/ /\ a.set_number = b.set_number
             /\ \/ a.game_number < b.game_number
                \/ /\ a.game_number = b.game_number
                   /\ a.point_number < b.point_number

\* One insertion of the stable sort: r goes after every row not greater.
RECURSIVE InsertRow(_, _)
InsertRow(sorted, r) ==
    IF sorted = <<>> THEN <<r>>
    ELSE IF KeyLess(r, sorted[Len(sorted)])
         THEN Append(InsertRow(SubSeq(sorted, 1, Len(sorted) - 1), r),
                     sorted[Len(sorted)])
         ELSE Append(sorted, r)

\* The frame left in the order it was read.
sort_values_skipped(df) == df

\* df.sort_values(["match_id","set_number","game_number","point_number"]):
\* a sort on several columns is a stable lexsort.
RECURSIVE sort_values(_)
sort_values(df) ==
    IF df = <<>> THEN <<>>
    ELSE InsertRow(sort_values(SubSeq(df, 1, Len(df) - 1)), df[Len(df)])

SameGame(a, b) ==
    /\ a.match_id = b.match_id
    /\ a.set_number = b.set_number
    /\ a.game_number = b.game_number

SameSet(a, b) == a.match_id = b.match_id /\ a.set_number = b.set_number

SameMatch(a, b) == a.match_id = b.match_id

\* dfp.groupby(keys)["point_number"].shift(-1).notna() at row i: the next
\* row of the same group, in frame order, exists (point_number is never
\* null).
has_next_point_in_game(dfp, i) ==
    \E j \in (i + 1)..Len(dfp) : SameGame(dfp[j], dfp[i])

has_next_point_in_set(dfp, i) ==
    \E j \in (i + 1)..Len(dfp) : SameSet(dfp[j], dfp[i])

\* No lookahead: no opportunity counts as saved.
no_next_point(dfp, i) == FALSE

\* The lookahead without the grouping: any later row of the frame.
has_next_point_in_frame(dfp, i) == i < Len(dfp)

has_next_point_in_match(dfp, i) ==
    \E j \in (i + 1)..Len(dfp) : SameMatch(dfp[j], dfp[i])

\* The match ids that occur in a frame, ascending: the index that
\* groupby("match_id") gives its result.
MatchIndex(df) == SortedSeq({df[i].match_id : i \in DOMAIN df})

\* The rows of one match, in frame order.
RowsOf(df, m) == SelectSeq(df, LAMBDA r : r.match_id = m)

\* The distinct (set_number, game_number) groups of one match.
GamesOf(df, m) ==
    {<<df[i].set_number, df[i].game_number>> :
        i \in {k \in DOMAIN df : df[k].match_id = m}}

\* The number of rows of a frame with a true flag: .sum() of a boolean column.
SumFlag(df, flag) == Cardinality({i \in DOMAIN df : df[i][flag]})

\* left.merge(right, left_on=.., right_on=.., how="left"): every left row,
\* in left order, once per right row with the same key; without one, the
\* right-hand columns cols are NaN.
MergeRow(l, right, left_on, right_on, cols) ==
    LET hits == SelectSeq(right, LAMBDA r : r[right_on] = l[left_on])
    IN  IF hits = <<>>
        THEN << l @@ [c \in cols |-> NaN] >>
        ELSE [j \in 1..Len(hits) |-> l @@ [c \in cols |-> hits[j][c]]]

merge(left, right, left_on, right_on, cols) ==
    Concat([i \in 1..Len(left) |-> MergeRow(left[i], right, left_on, right_on, cols)])

\* df[[columns]]: the projection of every row.
Project(df, cols) == [i \in 1..Len(df) |-> [c \in cols |-> df[i][c]]]

\* ------------------------------------------------------------------------
\* get_simple_totals
\* ------------------------------------------------------------------------
df_total_points(scores) ==
    LET idx == MatchIndex(scores)
    IN  [k \in 1..Len(idx) |->
            [match_id |-> idx[k], total_points |-> Len(RowsOf(scores, idx[k]))]]

df_total_games(scores) ==
    LET idx == MatchIndex(scores)
    IN  [k \in 1..Len(idx) |->
            [match_id |-> idx[k],
             total_games |-> Cardinality(GamesOf(scores, idx[k]))]]

get_simple_totals(matches, scores) ==
    LET df_totals == merge(matches, df_total_points(scores), "id", "match_id",
                           {"match_id", "total_points"})
    IN  merge(df_totals, df_total_games(scores), "match_id", "match_id",
              {"total_games"})

\* ------------------------------------------------------------------------
\* get_deuce_stats
\* ------------------------------------------------------------------------
\* df_deuce_count: the sum of is_deuce over one (match, set, game) group.
deuce_count(scores, m, g) ==
    Cardinality({i \in DOMAIN scores :
                    /\ scores[i].match_id = m
                    /\ <<scores[i].set_number, scores[i].game_number>> = g
                    /\ scores[i].is_deuce})

\* s0, s1, s2, s3: per match, the number of its games in one bucket.
s0(scores, m) == Cardinality({g \in GamesOf(scores, m) : deuce_count(scores, m, g) = 0})
s1(scores, m) == Cardinality({g \in GamesOf(scores, m) : deuce_count(scores, m, g) = 1})
s2(scores, m) == Cardinality({g \in GamesOf(scores, m) : deuce_count(scores, m, g) = 2})
s3(scores, m) == Cardinality({g \in GamesOf(scores, m) : deuce_count(scores, m, g) > 2})

\* pd.concat([s0, s1, s2, s3], axis=1).fillna(0): a row for every match
\* that has a game in some bucket.
df_games_with_deuce(scores) ==
    LET ms  == {scores[i].match_id : i \in DOMAIN scores}
        idx == SortedSeq({m \in ms : s0(scores, m) + s1(scores, m)
                                     + s2(scores, m) + s3(scores, m) > 0})
    IN  [k \in 1..Len(idx) |->
            [match_id |-> idx[k],
             games_0_deuce |-> s0(scores, idx[k]),
             games_1_deuce |-> s1(scores, idx[k]),
             games_2_deuces |-> s2(scores, idx[k]),
             games_3plus_deuces |-> s3(scores, idx[k])]]

df_deuce_points(scores) ==
    LET idx == MatchIndex(scores)
    IN  [k \in 1..Len(idx) |->
            [match_id |-> idx[k],
             total_deuces |-> SumFlag(RowsOf(scores, idx[k]), "is_deuce")]]

get_deuce_stats(scores) ==
    merge(df_deuce_points(scores), df_games_with_deuce(scores),
          "match_id", "match_id",
          {"games_0_deuce", "games_1_deuce", "games_2_deuces", "games_3plus_deuces"})

\* ------------------------------------------------------------------------
\* get_tiebreak_stats
\* ------------------------------------------------------------------------
\* .groupby("match_id")["set_number"].nunique() over the tie-break rows.
sets_with_tiebreak(scores) ==
    LET tbr == SelectSeq(scores, LAMBDA r : r.is_tiebreak)
        idx == MatchIndex(tbr)
    IN  [k \in 1..Len(idx) |->
            [match_id |-> idx[k],
             sets_with_tiebreak |->
                Cardinality({tbr[i].set_number :
                                i \in {j \in DOMAIN tbr : tbr[j].match_id = idx[k]}})]]

\* The full match list with sets_with_tiebreak, missing filled with 0.
df_tiebreaks(matches, scores) ==
    LET ids == [i \in 1..Len(matches) |-> [match_id |-> matches[i].id]]
        m   == merge(ids, sets_with_tiebreak(scores), "match_id", "match_id",
                     {"sets_with_tiebreak"})
    IN  [i \in 1..Len(m) |->
            [m[i] EXCEPT !.sets_with_tiebreak = IF @ = NaN THEN 0 ELSE @]]

\* .drop_duplicates(subset=[match_id, set_number, game_number]): the first
\* row of every game, in frame order.
drop_duplicates(df) ==
    LET F[i \in 0..Len(df)] ==
            IF i = 0 THEN <<>>
            ELSE IF \A j \in 1..(i - 1) : ~SameGame(df[j], df[i])
                 THEN Append(F[i - 1], df[i])
                 ELSE F[i - 1]
    IN  F[Len(df)]

\* The winner logic without the two-point margin.
team_wins_no_margin(p_own, p_opp) ==
    /\ p_own # NaN
    /\ p_opp # NaN
    /\ p_own + 1 >= 7
    /\ (p_own + 1) - p_opp >= 0

\* Winner logic on the pre-point scores; a comparison with NaN is false.
team_wins(p_own, p_opp) ==
    /\ p_own # NaN
    /\ p_opp # NaN
    /\ p_own + 1 >= 7
    /\ (p_own + 1) - p_opp >= 2

\* tb_last: the rows that are tie-break game points, one per game, with the
\* winner flags.
tb_last(scores) ==
    LET sel == drop_duplicates(
                   SelectSeq(scores, LAMBDA r : r.is_tiebreak /\ r.is_game_point))
    IN  [i \in 1..Len(sel) |->
            LET p1 == to_numeric(sel[i].point_score_team_1)
                p2 == to_numeric(sel[i].point_score_team_2)
            IN  [match_id |-> sel[i].match_id,
                 set_number |-> sel[i].set_number,
                 game_number |-> sel[i].game_number,
                 point_score_team_1 |-> sel[i].point_score_team_1,
                 point_score_team_2 |-> sel[i].point_score_team_2,
                 team_1_won_tb |-> team_wins(p1, p2),
                 team_2_won_tb |-> team_wins(p2, p1)]]

df_tb_wins_match(scores) ==
    LET tb  == tb_last(scores)
        idx == MatchIndex(tb)
    IN  [k \in 1..Len(idx) |->
            [match_id |-> idx[k],
             tie_breaks_won_team_1 |-> SumFlag(RowsOf(tb, idx[k]), "team_1_won_tb"),
             tie_breaks_won_team_2 |-> SumFlag(RowsOf(tb, idx[k]), "team_2_won_tb")]]

get_tiebreak_stats(matches, scores) ==
    LET m == merge(df_tiebreaks(matches, scores), df_tb_wins_match(scores),
                   "match_id", "match_id",
                   {"tie_breaks_won_team_1", "tie_breaks_won_team_2"})
    IN  [i \in 1..Len(m) |->
            [m[i] EXCEPT !.tie_breaks_won_team_1 = IF @ = NaN THEN 0 ELSE @,
                         !.tie_breaks_won_team_2 = IF @ = NaN THEN 0 ELSE @]]

\* ------------------------------------------------------------------------
\* get_points_per_game_stats
\* ------------------------------------------------------------------------
\* points_per_game: the size of one (match, set, game) group.
points_per_game(scores, m, g) ==
    Cardinality({i \in DOMAIN scores :
                    /\ scores[i].match_id = m
                    /\ <<scores[i].set_number, scores[i].game_number>> = g})

\* .mean().round(1) of n points over k games, in tenths of a point: the
\* quotient 10n/k rounded to the nearest integer, a tie going to the even
\* one (numpy rounds the scaled value half to even).
mean_round_1(n, k) ==
    LET q == (10 * n) \div k
        r == (10 * n) % k
    IN  IF 2 * r < k THEN q
        ELSE IF 2 * r > k THEN q + 1
        ELSE IF q % 2 = 0 THEN q ELSE q + 1

get_points_per_game_stats(scores) ==
    LET idx == MatchIndex(scores)
    IN  [k \in 1..Len(idx) |->
            LET m  == idx[k]
                gs == GamesOf(scores, m)
            IN  [match_id |-> m,
                 avg_points_per_game |->
                    mean_round_1(Len(RowsOf(scores, m)), Cardinality(gs)),
                 max_points_in_game |->
                    CHOOSE x \in {points_per_game(scores, m, g) : g \in gs} :
                        \A g \in gs : points_per_game(scores, m, g) <= x]]

\* ------------------------------------------------------------------------
\* Pressure points: game, set and match points faced and saved
\* ------------------------------------------------------------------------
\* Game point opportunity in a regular game, on the pre-point score tokens
\* (the columns are text, .astype(str) leaves them as they are).
gp_for(p_own, p_opp) ==
    \/ p_own = "A"
    \/ (p_own = "40" /\ p_opp \in {"0", "15", "30"})

\* The annotated frame of get_game_points_saved: sorted, regular games only.
game_points_dfp(scores) ==
    LET dfp == SelectSeq(sort_values(scores), LAMBDA r : ~r.is_tiebreak)
    IN  [i \in 1..Len(dfp) |->
            LET gp_t1 == gp_for(dfp[i].point_score_team_1, dfp[i].point_score_team_2)
                gp_t2 == gp_for(dfp[i].point_score_team_2, dfp[i].point_score_team_1)
                nxt   == has_next_point_in_game(dfp, i)
            IN  dfp[i] @@ [gp_faced_t1 |-> gp_t2,
                           gp_faced_t2 |-> gp_t1,
                           has_next_point_in_game |-> nxt,
                           gp_saved_t1 |-> gp_t2 /\ nxt,
                           gp_saved_t2 |-> gp_t1 /\ nxt]]

get_game_points_saved(scores) ==
    LET dfp == game_points_dfp(scores)
        idx == MatchIndex(dfp)
    IN  [k \in 1..Len(idx) |->
            LET rows == RowsOf(dfp, idx[k])
            IN  [match_id |-> idx[k],
                 game_points_faced_team_1 |-> SumFlag(rows, "gp_faced_t1"),
                 game_points_saved_team_1 |-> SumFlag(rows, "gp_saved_t1"),
                 game_points_faced_team_2 |-> SumFlag(rows, "gp_faced_t2"),
                 game_points_saved_team_2 |-> SumFlag(rows, "gp_saved_t2")]]

\* The set-end test without the bound on the opponent's games at 5.
set_can_end_any_margin(g_own, g_opp) ==
    /\ g_own # NaN
    /\ g_opp # NaN
    /\ \/ g_own = 5
       \/ (g_own = 6 /\ g_opp = 5)

\* ((g_own == 5) & (g_opp <= 4)) | ((g_own == 6) & (g_opp == 5)) on the
\* coerced set-game counts; a comparison with NaN is false.
set_can_end(g_own, g_opp) ==
    /\ g_own # NaN
    /\ g_opp # NaN
    /\ \/ (g_own = 5 /\ g_opp <= 4)
       \/ (g_own = 6 /\ g_opp = 5)

\* ((tb_own + 1) >= 7) & (((tb_own + 1) - tb_opp) >= 2) on the coerced
\* tie-break scores; a comparison with NaN is false.
tb_sp_for(tb_own, tb_opp) ==
    /\ tb_own # NaN
    /\ tb_opp # NaN
    /\ tb_own + 1 >= 7
    /\ (tb_own + 1) - tb_opp >= 2

\* The set-point flag of one row for the team with the "own" columns.
sp_for(r, p_own, p_opp, g_own, g_opp) ==
    IF r.is_tiebreak
    THEN tb_sp_for(to_numeric(p_own), to_numeric(p_opp))
    ELSE gp_for(p_own, p_opp) /\ set_can_end(to_numeric(g_own), to_numeric(g_opp))

add_set_point_flqgs(scores) ==
    LET dfp == sort_values(scores)
    IN  [i \in 1..Len(dfp) |->
            LET r == dfp[i]
            IN  r @@ [sp_for_t1 |-> sp_for(r, r.point_score_team_1, r.point_score_team_2,
                                           r.game_score_team_1, r.game_score_team_2),
                      sp_for_t2 |-> sp_for(r, r.point_score_team_2, r.point_score_team_1,
                                           r.game_score_team_2, r.game_score_team_1)]]

\* The annotated frame of get_set_points_saved.
set_points_dfp(scores) ==
    LET dfp == add_set_point_flqgs(scores)
    IN  [i \in 1..Len(dfp) |->
            LET nxt == has_next_point_in_set(dfp, i)
            IN  dfp[i] @@ [sp_faced_t1 |-> dfp[i].sp_for_t2,
                           sp_faced_t2 |-> dfp[i].sp_for_t1,
                           has_next_point_in_set |-> nxt,
                           sp_saved_t1 |-> dfp[i].sp_for_t2 /\ nxt,
                           sp_saved_t2 |-> dfp[i].sp_for_t1 /\ nxt]]

get_set_points_saved(scores) ==
    LET dfp == set_points_dfp(scores)
        idx == MatchIndex(dfp)
    IN  [k \in 1..Len(idx) |->
            LET rows == RowsOf(dfp, idx[k])
            IN  [match_id |-> idx[k],
                 set_points_faced_team_1 |-> SumFlag(rows, "sp_faced_t1"),
                 set_points_saved_team_1 |-> SumFlag(rows, "sp_saved_t1"),
                 set_points_faced_team_2 |-> SumFlag(rows, "sp_faced_t2"),
                 set_points_saved_team_2 |-> SumFlag(rows, "sp_saved_t2")]]

\* pd.to_numeric(set_score, errors="coerce").fillna(0).astype(int)
sets_won(tok) == IF to_numeric(tok) = NaN THEN 0 ELSE to_numeric(tok)

\* The annotated frame of get_match_points_saved.
match_points_dfp(scores, sets_to_win) ==
    LET dfp == add_set_point_flqgs(scores)
    IN  [i \in 1..Len(dfp) |->
            LET mp_t1 == dfp[i].sp_for_t1
                         /\ sets_won(dfp[i].set_score_team_1) >= sets_to_win - 1
                mp_t2 == dfp[i].sp_for_t2
                         /\ sets_won(dfp[i].set_score_team_2) >= sets_to_win - 1
                nxt   == has_next_point_in_match(dfp, i)
            IN  dfp[i] @@ [mp_for_t1 |-> mp_t1,
                           mp_for_t2 |-> mp_t2,
                           mp_faced_t1 |-> mp_t2,
                           mp_faced_t2 |-> mp_t1,
                           has_next_point_in_match |-> nxt,
                           mp_saved_t1 |-> mp_t2 /\ nxt,
                           mp_saved_t2 |-> mp_t1 /\ nxt]]

get_match_points_saved(scores, sets_to_win) ==
    LET dfp == match_points_dfp(scores, sets_to_win)
        idx == MatchIndex(dfp)
    IN  [k \in 1..Len(idx) |->
            LET rows == RowsOf(dfp, idx[k])
            IN  [match_id |-> idx[k],
                 match_points_faced_team_1 |-> SumFlag(rows, "mp_faced_t1"),
                 match_points_saved_team_1 |-> SumFlag(rows, "mp_saved_t1"),
                 match_points_faced_team_2 |-> SumFlag(rows, "mp_faced_t2"),
                 match_points_saved_team_2 |-> SumFlag(rows, "mp_saved_t2")]]

\* The default of the parameter sets_to_win of get_match_points_saved.
DefaultSetsToWin == 2

\* ------------------------------------------------------------------------
\* build_stats
\* ------------------------------------------------------------------------
DeuceCols == {"total_deuces", "games_0_deuce", "games_1_deuce", "games_2_deuces",
              "games_3plus_deuces"}
TiebreakCols == {"sets_with_tiebreak", "tie_breaks_won_team_1", "tie_breaks_won_team_2"}
PointsPerGameCols == {"avg_points_per_game", "max_points_in_game"}
GamePointCols == {"game_points_faced_team_1", "game_points_saved_team_1",
                  "game_points_faced_team_2", "game_points_saved_team_2"}
SetPointCols == {"set_points_faced_team_1", "set_points_saved_team_1",
                 "set_points_faced_team_2", "set_points_saved_team_2"}
MatchPointCols == {"match_points_faced_team_1", "match_points_saved_team_1",
                   "match_points_faced_team_2", "match_points_saved_team_2"}

\* The metric columns of the output.
MetricCols ==
    {"total_points", "total_games"} \cup DeuceCols \cup TiebreakCols
    \cup PointsPerGameCols \cup GamePointCols \cup SetPointCols \cup MatchPointCols

build_stats(matches, scores) ==
    LET t0 == Project(get_simple_totals(matches, scores),
                      {"match_id", "total_points", "total_games"})
        t1 == merge(t0, get_deuce_stats(scores), "match_id", "match_id", DeuceCols)
        t2 == merge(t1, get_tiebreak_stats(matches, scores), "match_id", "match_id",
                    TiebreakCols)
        t3 == merge(t2, get_points_per_game_stats(scores), "match_id", "match_id",
                    PointsPerGameCols)
        t4 == merge(t3, get_game_points_saved(scores), "match_id", "match_id",
                    GamePointCols)
        t5 == merge(t4, get_set_points_saved(scores), "match_id", "match_id",
                    SetPointCols)
    IN  merge(t5, get_match_points_saved(scores, DefaultSetsToWin),
              "match_id", "match_id", MatchPointCols)

\* ------------------------------------------------------------------------
\* Input domains
\* ------------------------------------------------------------------------
\* sets_to_win of a match record: best of three or best of five.
SetsToWin == {2, 3}

MatchRows == [id : 1..MaxMatchId, sets_to_win : SetsToWin]

\* The tie-break of a set is its last game: a (match, set, game) group is
\* entirely regular or entirely tie-break.
TieBreakGame == MaxGameNumber

Snap(p1, p2, g1, g2, w1, w2, deuce, gp) ==
    [point_score_team_1 |-> p1, point_score_team_2 |-> p2,
     game_score_team_1 |-> g1, game_score_team_2 |-> g2,
     set_score_team_1 |-> w1, set_score_team_2 |-> w2,
     is_deuce |-> deuce, is_game_point |-> gp]

\* Pre-point score states of a point of a regular game.
RegularSnaps ==
    { Snap("40", "40", "5", "4", "1", "0", TRUE, FALSE),
      Snap("40", "30", "5", "4", "1", "0", FALSE, TRUE),
      Snap("30", "40", "2", "3", "0", "0", FALSE, TRUE) }

\* Pre-point score states of a point of a tie-break game.
TieBreakSnaps ==
    { Snap("6", "5", "6", "6", "0", "1", FALSE, TRUE),
      Snap("6", "7", "6", "6", "0", "1", FALSE, TRUE) }

PointKeys ==
    [match_id : 1..MaxMatchId, set_number : 1..MaxSetNumber,
     game_number : 1..MaxGameNumber, point_number : 1..MaxPointNumber]

\* The rows of silver.fact_point the model reads: a key and the score state
\* of a game of its kind.
PointRows ==
    { k @@ sn @@ [is_tiebreak |-> FALSE] :
        k \in {q \in PointKeys : q.game_number # TieBreakGame}, sn \in RegularSnaps }
    \cup
    { k @@ sn @@ [is_tiebreak |-> TRUE] :
        k \in {q \in PointKeys : q.game_number = TieBreakGame}, sn \in TieBreakSnaps }

\* ------------------------------------------------------------------------
\* main
\* ------------------------------------------------------------------------
\* df_matches, df_scores, df_stats: the frames of main.  incremental: the
\* setting INCREMENTAL_MATCHES.  gold: the rows of gold.match_stats.  sheet:
\* the data rows of the worksheet "Match Stats".  exit_code: the code the
\* process ended with, NoExit while it runs.  pc: the position in main.
\* gold_at_start: the rows gold.match_stats held when the run started (the
\* worksheet held their export).
VARIABLES df_matches, df_scores, df_stats, incremental, gold, sheet, exit_code, pc,
          gold_at_start

\* The tables the other two jobs write and main reads, and those jobs:
\* bronze_match, bronze_point, silver_match, silver_point are the rows of
\* bronze.fact_match, bronze.fact_point, silver.fact_match and
\* silver.fact_point; now is the clock pd.Timestamp("now") reads;
\* transform_pc is the position of transform-match-data in its main.
VARIABLES bronze_match, bronze_point, silver_match, silver_point, now, transform_pc

etl == <<bronze_match, bronze_point, silver_match, silver_point, now, transform_pc>>

vars == <<df_matches, df_scores, df_stats, incremental, gold, sheet, exit_code, pc,
          gold_at_start, etl>>

\* A single run of main looked at on its own: the other jobs do not run and
\* the tables main reads are given by df_matches and df_scores.
NoEtl ==
    /\ bronze_match = <<>>
    /\ bronze_point = <<>>
    /\ silver_match = <<>>
    /\ silver_point = <<>>
    /\ now = 0
    /\ transform_pc = "idle"

\* The process has not ended.
NoExit == -1

\* Full refresh (INCREMENTAL_MATCHES defaults to 0), nothing stored yet.
Init ==
    /\ df_matches = <<>>
    /\ df_scores = <<>>
    /\ df_stats = <<>>
    /\ incremental = 0
    /\ gold = <<>>
    /\ sheet = <<>>
    /\ gold_at_start = <<>>
    /\ exit_code = NoExit
    /\ pc = "read"
    /\ NoEtl

\* read_db_table("fact_match", "silver") delivers one more row; ids are
\* distinct and ascending.
ReadMatchRow ==
    /\ pc = "read"
    /\ Len(df_matches) < MaxMatches
    /\ \E m \in MatchRows :
          /\ \A i \in DOMAIN df_matches : df_matches[i].id < m.id
          /\ df_matches' = Append(df_matches, m)
    /\ UNCHANGED <<etl, df_scores, df_stats, incremental, gold, sheet, exit_code, pc,
                   gold_at_start>>

\* read_db_table("fact_point", "silver") delivers one more row.  The table
\* holds the matches one after the other (get-matches appends the points
\* match by match), the points of a match in any order, and no two rows
\* with the same (match_id, set_number, game_number, point_number).
ReadPointRow ==
    /\ pc = "read"
    /\ Len(df_scores) < MaxRows
    /\ \E r \in PointRows :
          /\ \A i \in DOMAIN df_scores :
                /\ df_scores[i].match_id <= r.match_id
                /\ KeyLess(df_scores[i], r) \/ KeyLess(r, df_scores[i])
          /\ df_scores' = Append(df_scores, r)
    /\ UNCHANGED <<etl, df_matches, df_stats, incremental, gold, sheet, exit_code, pc,
                   gold_at_start>>

\* An empty table handled as an empty result that is stored like any other.
MainNoRows_stores ==
    /\ pc = "read"
    /\ (df_matches = <<>> \/ df_scores = <<>>)
    /\ gold' = <<>>
    /\ sheet' = <<>>
    /\ exit_code' = 0
    /\ pc' = "exit"
    /\ UNCHANGED <<etl, df_matches, df_scores, df_stats, incremental, gold_at_start>>

\* main, one table empty: the warning, nothing is built or stored, and the
\* run ends with sys.exit(0).
MainNoRows ==
    /\ pc = "read"
    /\ (df_matches = <<>> \/ df_scores = <<>>)
    /\ exit_code' = 0
    /\ pc' = "exit"
    /\ UNCHANGED <<etl, df_matches, df_scores, df_stats, incremental, gold, sheet,
                   gold_at_start>>

\* main, both tables with rows: df_stats = build_stats(df_matches, df_scores).
MainBuildStats ==
    /\ pc = "read"
    /\ df_matches # <<>>
    /\ df_scores # <<>>
    /\ df_stats' = build_stats(df_matches, df_scores)
    /\ pc' = "built"
    /\ UNCHANGED <<etl, df_matches, df_scores, incremental, gold, sheet, exit_code,
                   gold_at_start>>

Next == ReadMatchRow \/ ReadPointRow \/ MainNoRows \/ MainBuildStats

Spec == Init /\ [][Next]_vars

\* ------------------------------------------------------------------------
\* store_gold_data and the end of main
\* ------------------------------------------------------------------------
\* pd.Timestamp.now() of this run and of the run that stored the rows the
\* table held before, in clock ticks; strftime("%Y-%m-%d") keeps the day.
TicksPerDay == 2
PriorRunTime == 1
RunTime == 3

strftime_day(t) == t \div TicksPerDay

\* What export_df_to_sheet writes for a missing value: the empty cell.
Blank == -2

\* df["created_at"] = pd.Timestamp.now()
with_created_at(df, t) == [i \in 1..Len(df) |-> df[i] @@ [created_at |-> t]]

\* The rows of the data frame as export_df_to_sheet sends them: created_at
\* as a day, every missing value as an empty cell.
sheet_values(df) ==
    [i \in 1..Len(df) |->
        [c \in DOMAIN df[i] |->
            IF c = "created_at" THEN strftime_day(df[i][c])
            ELSE IF df[i][c] = NaN THEN Blank ELSE df[i][c]]]

\* A row of gold.match_stats stored by an earlier run.
PriorRow ==
    [c \in MetricCols |-> 0] @@ [match_id |-> 1, created_at |-> PriorRunTime]

\* write_db(df, "match_stats", "gold", if_exists): to_sql appends the rows
\* or replaces the table.
WriteDb ==
    /\ pc = "built"
    /\ gold' = IF incremental = 1
               THEN gold \o with_created_at(df_stats, RunTime)
               ELSE with_created_at(df_stats, RunTime)
    /\ pc' = "written"
    /\ UNCHANGED <<etl, df_matches, df_scores, df_stats, incremental, sheet, exit_code,
                   gold_at_start>>

\* write_db raises: main logs the error and ends with sys.exit(1).
WriteDbFails ==
    /\ pc = "built"
    /\ exit_code' = 1
    /\ pc' = "exit"
    /\ UNCHANGED <<etl, df_matches, df_scores, df_stats, incremental, gold, sheet,
                   gold_at_start>>

\* open_sheet cannot authenticate or open the spreadsheet: sys.exit(2),
\* which the except clause of main does not catch.
OpenSheetExits ==
    /\ pc = "written"
    /\ exit_code' = 2
    /\ pc' = "exit"
    /\ UNCHANGED <<etl, df_matches, df_scores, df_stats, incremental, gold, sheet,
                   gold_at_start>>

\* export_df_to_sheet raises before it changed the worksheet (a missing
\* environment variable, the worksheet lookup, append_rows or clear
\* refused): main ends with sys.exit(1).
ExportRaises ==
    /\ pc = "written"
    /\ exit_code' = 1
    /\ pc' = "exit"
    /\ UNCHANGED <<etl, df_matches, df_scores, df_stats, incremental, gold, sheet,
                   gold_at_start>>

\* append_rows and the worksheet has values: ws.append_rows(values).
ExportAppend ==
    /\ pc = "written"
    /\ incremental = 1
    /\ sheet # <<>>
    /\ sheet' = sheet \o sheet_values(with_created_at(df_stats, RunTime))
    /\ pc' = "exported"
    /\ UNCHANGED <<etl, df_matches, df_scores, df_stats, incremental, gold, exit_code,
                   gold_at_start>>

\* Otherwise the worksheet is overwritten; first ws.clear().
ExportClear ==
    /\ pc = "written"
    /\ ~(incremental = 1 /\ sheet # <<>>)
    /\ sheet' = <<>>
    /\ pc' = "cleared"
    /\ UNCHANGED <<etl, df_matches, df_scores, df_stats, incremental, gold, exit_code,
                   gold_at_start>>

\* ... then ws.update([headers] + values); the header row is not modelled,
\* a worksheet with values has it.
ExportUpdate ==
    /\ pc = "cleared"
    /\ sheet' = sheet_values(with_created_at(df_stats, RunTime))
    /\ pc' = "exported"
    /\ UNCHANGED <<etl, df_matches, df_scores, df_stats, incremental, gold, exit_code,
                   gold_at_start>>

\* ws.update raises on the cleared worksheet: sys.exit(1).
ExportUpdateFails ==
    /\ pc = "cleared"
    /\ exit_code' = 1
    /\ pc' = "exit"
    /\ UNCHANGED <<etl, df_matches, df_scores, df_stats, incremental, gold, sheet,
                   gold_at_start>>

\* main after store_gold_data: the log line and sys.exit(0).
MainExit ==
    /\ pc = "exported"
    /\ exit_code' = 0
    /\ pc' = "exit"
    /\ UNCHANGED <<etl, df_matches, df_scores, df_stats, incremental, gold, sheet,
                   gold_at_start>>

\* The tables a run reads: no match, one or two; no point or one point
\* (the first point of a game of the first set).
RunMatchLists ==
    { <<>> } \cup { << [id |-> 1, sets_to_win |-> w] >> : w \in SetsToWin }
    \cup { << [id |-> 1, sets_to_win |-> w], [id |-> MaxMatchId, sets_to_win |-> w] >> :
             w \in SetsToWin }

RunPointLogs ==
    { <<>> } \cup { << r >> : r \in {q \in PointRows : q.set_number = 1 /\ q.point_number = 1} }

\* A run of produce-match-stats in either mode, on a gold table and a
\* worksheet that are empty or hold the row of an earlier run.
InitRun ==
    /\ df_matches \in RunMatchLists
    /\ df_scores \in RunPointLogs
    /\ df_stats = <<>>
    /\ incremental \in {0, 1}
    /\ gold_at_start \in { <<>>, << PriorRow >> }
    /\ gold = gold_at_start
    /\ sheet = sheet_values(gold_at_start)
    /\ exit_code = NoExit
    /\ pc = "read"
    /\ NoEtl

NextRun ==
    \/ MainNoRows
    \/ MainBuildStats
    \/ WriteDb
    \/ WriteDbFails
    \/ OpenSheetExits
    \/ ExportRaises
    \/ ExportAppend
    \/ ExportClear
    \/ ExportUpdate
    \/ ExportUpdateFails
    \/ MainExit

SpecRun == InitRun /\ [][NextRun]_vars

\* ------------------------------------------------------------------------
\* The classification of a single point, over all score tokens
\* ------------------------------------------------------------------------
\* Score tokens of the point-score columns: the regular-game ladder, the
\* tie-break counts around the winning threshold, and "x", a token that is
\* no number and no ladder value (dirty data).
PointTokens == {"0", "15", "30", "40", "A", "5", "6", "7", "8", "x"}
GameTokens == {"4", "5", "6", "x"}
SetTokens == {"0", "1", "x"}

FirstKey(g) == [match_id |-> 1, set_number |-> 1, game_number |-> g, point_number |-> 1]

\* The set-game counts on the rows of a tie-break game: 6-6, and a pair
\* that a regular game could end the set from.
TieBreakGameScores == { <<"6", "6">>, <<"5", "4">> }

\* One row of a regular game with any tokens.  The columns is_deuce and
\* is_game_point are read from the table as they are: is_deuce takes both
\* values on a regular row (no function reads is_game_point there).
WideRegularRow(p1, p2, g1, g2, w1, w2, deuce) ==
    FirstKey(1) @@ [is_tiebreak |-> FALSE]
        @@ Snap(p1, p2, g1, g2, w1, w2, deuce, gp_for(p1, p2) \/ gp_for(p2, p1))

\* One row of a tie-break game with any tokens; is_game_point takes both
\* values.
WideTieBreakRow(p1, p2, g, w1, w2, gp) ==
    FirstKey(TieBreakGame) @@ [is_tiebreak |-> TRUE]
        @@ Snap(p1, p2, g[1], g[2], w1, w2, FALSE, gp)

\* One match whose point log is a single point.
InitPoint ==
    /\ \E w \in SetsToWin : df_matches = << [id |-> 1, sets_to_win |-> w] >>
    /\ \E p1 \in PointTokens, p2 \in PointTokens, w1 \in SetTokens, w2 \in SetTokens :
          \/ \E g1 \in GameTokens, g2 \in GameTokens, deuce \in BOOLEAN :
                df_scores = << WideRegularRow(p1, p2, g1, g2, w1, w2, deuce) >>
          \/ \E g \in TieBreakGameScores, gp \in BOOLEAN :
                df_scores = << WideTieBreakRow(p1, p2, g, w1, w2, gp) >>
    /\ df_stats = <<>>
    /\ incremental = 0
    /\ gold = <<>>
    /\ sheet = <<>>
    /\ gold_at_start = <<>>
    /\ exit_code = NoExit
    /\ pc = "read"
    /\ NoEtl

NextPoint == MainBuildStats

SpecPoint == InitPoint /\ [][NextPoint]_vars

\* ------------------------------------------------------------------------
\* The three jobs in incremental mode (INCREMENTAL_MATCHES = 1)
\* ------------------------------------------------------------------------
\* get-matches, transform-match-data and produce-match-stats are separate
\* processes that a scheduler starts; they share the tables only.  Every
\* write appends.  A step that reads the clock advances it, no two stamps
\* are equal.
MaxFeed == 3
MaxTime == 9

\* The match the feed delivers under the id m (parse_matches keeps the id
\* and descriptive columns the engine does not read) and its point log (one
\* point of a regular game, in the columns the engine reads).
FeedMatch(m) == [id |-> m]

FeedPoints(m) ==
    << [match_id |-> m, set_number |-> 1, game_number |-> 1, point_number |-> 1]
         @@ [is_tiebreak |-> FALSE]
         @@ Snap("40", "30", "5", "4", "1", "0", FALSE, TRUE) >>

\* transform_matches: df_matches["created_at"] = pd.Timestamp("now")
\* overwrites the column the bronze rows came with.
transform_matches(df_raw_data, t) ==
    [i \in 1..Len(df_raw_data) |-> [df_raw_data[i] EXCEPT !.created_at = t]]

\* transform_scores: the placeholder returns the bronze rows as they are,
\* created_at included.
transform_scores(df_raw_data) == df_raw_data

\* SELECT MAX(created_at) of a table with rows.
get_last_update_date(table) ==
    CHOOSE t \in {table[i].created_at : i \in DOMAIN table} :
        \A i \in DOMAIN table : table[i].created_at <= t

\* SELECT * FROM table WHERE created_at > from_timestamp
read_db_table(table, from_timestamp) ==
    SelectSeq(table, LAMBDA r : r.created_at > from_timestamp)

\* get-matches, main: the next match of the feed and its points, stamped
\* when they are parsed, are appended to bronze.fact_point and
\* bronze.fact_match.  The feed delivers every match once, ids ascending.
GetMatches ==
    /\ now < MaxTime
    /\ Len(bronze_match) < MaxFeed
    /\ LET m == Len(bronze_match) + 1
       IN  /\ bronze_point' = bronze_point \o with_created_at(FeedPoints(m), now)
           /\ bronze_match' = Append(bronze_match, FeedMatch(m) @@ [created_at |-> now])
    /\ now' = now + 1
    /\ UNCHANGED <<df_matches, df_scores, df_stats, incremental, gold, sheet,
                   exit_code, pc, gold_at_start, silver_match, silver_point,
                   transform_pc>>

\* transform-match-data, main, first half: the whole of bronze.fact_match
\* is read, stamped and appended to silver.fact_match.
TransformMatches ==
    /\ transform_pc = "idle"
    /\ now < MaxTime
    /\ IF bronze_match = <<>>
       THEN UNCHANGED <<silver_match, now>>
       ELSE /\ silver_match' = silver_match \o transform_matches(bronze_match, now)
            /\ now' = now + 1
    /\ transform_pc' = "points"
    /\ UNCHANGED <<df_matches, df_scores, df_stats, incremental, gold, sheet,
                   exit_code, pc, gold_at_start, bronze_match, bronze_point,
                   silver_point>>

\* transform-match-data, main, second half: the whole of bronze.fact_point
\* is read and appended to silver.fact_point; the run ends.
TransformPoints ==
    /\ transform_pc = "points"
    /\ silver_point' = silver_point \o transform_scores(bronze_point)
    /\ transform_pc' = "idle"
    /\ UNCHANGED <<df_matches, df_scores, df_stats, incremental, gold, sheet,
                   exit_code, pc, gold_at_start, bronze_match, bronze_point,
                   silver_match, now>>

\* produce-match-stats, main in incremental mode on a gold.match_stats
\* without rows: MAX(created_at) is no timestamp, last_update.strftime
\* raises, and the run ends with sys.exit(1) before it read anything.
ProduceNoWatermark ==
    /\ pc \in {"idle", "exit"}
    /\ incremental = 1
    /\ gold = <<>>
    /\ exit_code' = 1
    /\ pc' = "exit"
    /\ UNCHANGED <<etl, df_matches, df_scores, df_stats, incremental, gold, sheet,
                   gold_at_start>>

\* produce-match-stats, main in incremental mode: a new run reads the
\* watermark and the rows of both silver tables created after it.
ProduceRead ==
    /\ pc \in {"idle", "exit"}
    /\ incremental = 1
    /\ gold # <<>>
    /\ LET last_update == get_last_update_date(gold)
       IN  /\ df_matches' = read_db_table(silver_match, last_update)
           /\ df_scores' = read_db_table(silver_point, last_update)
    /\ df_stats' = <<>>
    /\ gold_at_start' = gold
    /\ exit_code' = NoExit
    /\ pc' = "read"
    /\ UNCHANGED <<etl, incremental, gold, sheet>>

\* store_gold_data in incremental mode: the statistics are stamped and
\* appended to gold.match_stats and to the worksheet; main ends with
\* sys.exit(0).
StoreGoldData ==
    /\ pc = "built"
    /\ incremental = 1
    /\ now < MaxTime
    /\ gold' = gold \o with_created_at(df_stats, now)
    /\ sheet' = sheet \o sheet_values(with_created_at(df_stats, now))
    /\ now' = now + 1
    /\ exit_code' = 0
    /\ pc' = "exit"
    /\ UNCHANGED <<df_matches, df_scores, df_stats, incremental, gold_at_start,
                   bronze_match, bronze_point, silver_match, silver_point,
                   transform_pc>>

\* The deployment starts in incremental mode with empty tables, or it was
\* switched to incremental mode after a full refresh that took the first
\* match of the feed through the three jobs.
InitEtl ==
    /\ incremental = 1
    /\ df_matches = <<>>
    /\ df_scores = <<>>
    /\ df_stats = <<>>
    /\ gold_at_start = <<>>
    /\ exit_code = NoExit
    /\ pc = "idle"
    /\ transform_pc = "idle"
    /\ \/ /\ bronze_match = <<>>
          /\ bronze_point = <<>>
          /\ silver_match = <<>>
          /\ silver_point = <<>>
          /\ gold = <<>>
          /\ now = 1
       \/ /\ bronze_match = << FeedMatch(1) @@ [created_at |-> 1] >>
          /\ bronze_point = with_created_at(FeedPoints(1), 1)
          /\ silver_match = transform_matches(bronze_match, 2)
          /\ silver_point = transform_scores(bronze_point)
          /\ gold = with_created_at(build_stats(silver_match, silver_point), 3)
          /\ now = 4
    /\ sheet = sheet_values(gold)

NextEtl ==
    \/ GetMatches
    \/ TransformMatches
    \/ TransformPoints
    \/ ProduceNoWatermark
    \/ ProduceRead
    \/ MainNoRows
    \/ MainBuildStats
    \/ StoreGoldData

SpecEtl == InitEtl /\ [][NextEtl]_vars

\* ------------------------------------------------------------------------
\* Properties
\* ------------------------------------------------------------------------
\* The rows of the output that carry the match id m.
StatsRowsOf(m) == {k \in DOMAIN df_stats : df_stats[k].match_id = m}

\* The point records that carry the match id m.
PointsOfMatch(m) == {i \in DOMAIN df_scores : df_scores[i].match_id = m}

\* Point i comes before point j in the ordered point log.
Before(i, j) == KeyLess(df_scores[i], df_scores[j])

\* C1: a match of the match list without point records has an output row
\* keyed by its match_id in which every numeric metric is 0.
C1_PointlessMatchZeroRow ==
    pc = "built" =>
        \A i \in DOMAIN df_matches :
            PointsOfMatch(df_matches[i].id) = {} =>
                \E k \in StatsRowsOf(df_matches[i].id) :
                    \A c \in MetricCols : df_stats[k][c] = 0

\* C2: the output has exactly one row per match of the match list,
\* identified by the match's id, and no row for any other match id.
C2_OneRowPerListedMatch ==
    pc = "built" =>
        /\ \A i \in DOMAIN df_matches :
              Cardinality(StatsRowsOf(df_matches[i].id)) = 1
        /\ \A k \in DOMAIN df_stats :
              \E i \in DOMAIN df_matches : df_stats[k].match_id = df_matches[i].id

\* The tie-break games of match m: its (set, game) groups with a tie-break
\* point.
TieBreakGamesOf(m) ==
    {<<df_scores[i].set_number, df_scores[i].game_number>> :
        i \in {k \in PointsOfMatch(m) : df_scores[k].is_tiebreak}}

\* The last point of game g of match m in the ordered point log.
LastPointOf(m, g) ==
    CHOOSE i \in PointsOfMatch(m) :
        /\ <<df_scores[i].set_number, df_scores[i].game_number>> = g
        /\ \A j \in PointsOfMatch(m) :
              (j # i /\ <<df_scores[j].set_number, df_scores[j].game_number>> = g)
                  => Before(j, i)

\* Winning this point takes the tie-break: pre-point score + 1 is >= 7 and
\* leads the opponent's pre-point score by >= 2.
TakesTieBreak(own, opp) ==
    /\ to_numeric(own) # NaN
    /\ to_numeric(opp) # NaN
    /\ to_numeric(own) + 1 >= 7
    /\ to_numeric(own) + 1 >= to_numeric(opp) + 2

\* C3: in the row of every match with points, tie_breaks_won_team_X is the
\* number of its tie-break games whose LAST point gives team X the
\* tie-break, whatever game points were saved before and whatever the row
\* order.
C3_TieBreakWinnerFromLastPoint ==
    pc = "built" =>
        \A k \in DOMAIN df_stats :
            df_stats[k].match_id # NaN =>
                LET m == df_stats[k].match_id
                IN  /\ df_stats[k].tie_breaks_won_team_1 =
                          Cardinality({g \in TieBreakGamesOf(m) :
                              TakesTieBreak(df_scores[LastPointOf(m, g)].point_score_team_1,
                                            df_scores[LastPointOf(m, g)].point_score_team_2)})
                    /\ df_stats[k].tie_breaks_won_team_2 =
                          Cardinality({g \in TieBreakGamesOf(m) :
                              TakesTieBreak(df_scores[LastPointOf(m, g)].point_score_team_2,
                                            df_scores[LastPointOf(m, g)].point_score_team_1)})

\* The set-point flags of point i, as the engine annotates them.
SetPointFor1(i) ==
    LET r == df_scores[i]
    IN  sp_for(r, r.point_score_team_1, r.point_score_team_2,
               r.game_score_team_1, r.game_score_team_2)

SetPointFor2(i) ==
    LET r == df_scores[i]
    IN  sp_for(r, r.point_score_team_2, r.point_score_team_1,
               r.game_score_team_2, r.game_score_team_1)

\* Match point under sets_to_win = w: a set point, and the sets already won
\* are >= w - 1.
MatchPointFor1(i, w) ==
    SetPointFor1(i) /\ sets_won(df_scores[i].set_score_team_1) >= w - 1

MatchPointFor2(i, w) ==
    SetPointFor2(i) /\ sets_won(df_scores[i].set_score_team_2) >= w - 1

\* A later point of the same match exists in the ordered point log.
MatchGoesOn(i) ==
    \E j \in PointsOfMatch(df_scores[i].match_id) : j # i /\ Before(i, j)

\* C4: for every match of the match list with points, the match-point
\* metrics count the points that are match points under that match's own
\* sets_to_win.
C4_MatchPointsUseOwnSetsToWin ==
    pc = "built" =>
        \A n \in DOMAIN df_matches : \A k \in StatsRowsOf(df_matches[n].id) :
            LET m == df_matches[n].id
                w == df_matches[n].sets_to_win
            IN  /\ df_stats[k].match_points_faced_team_1 =
                      Cardinality({i \in PointsOfMatch(m) : MatchPointFor2(i, w)})
                /\ df_stats[k].match_points_faced_team_2 =
                      Cardinality({i \in PointsOfMatch(m) : MatchPointFor1(i, w)})
                /\ df_stats[k].match_points_saved_team_1 =
                      Cardinality({i \in PointsOfMatch(m) :
                                      MatchPointFor2(i, w) /\ MatchGoesOn(i)})
                /\ df_stats[k].match_points_saved_team_2 =
                      Cardinality({i \in PointsOfMatch(m) :
                                      MatchPointFor1(i, w) /\ MatchGoesOn(i)})

\* The game-point flags of point i of a regular game, on its score tokens.
GamePointFor1(i) ==
    /\ ~df_scores[i].is_tiebreak
    /\ gp_for(df_scores[i].point_score_team_1, df_scores[i].point_score_team_2)

GamePointFor2(i) ==
    /\ ~df_scores[i].is_tiebreak
    /\ gp_for(df_scores[i].point_score_team_2, df_scores[i].point_score_team_1)

\* A later point of the same game, of the same set, exists in the ordered
\* point log.
GameGoesOn(i) ==
    \E j \in DOMAIN df_scores :
        j # i /\ SameGame(df_scores[j], df_scores[i]) /\ Before(i, j)

SetGoesOn(i) ==
    \E j \in DOMAIN df_scores :
        j # i /\ SameSet(df_scores[j], df_scores[i]) /\ Before(i, j)

\* faced and saved are the counts, over the points of match m, of the
\* faced opportunities and of those with a later point in the group; the
\* others are the converted ones.
Resolved(m, faced, saved, Faced(_), GoesOn(_)) ==
    /\ saved = Cardinality({i \in PointsOfMatch(m) : Faced(i) /\ GoesOn(i)})
    /\ faced - saved = Cardinality({i \in PointsOfMatch(m) : Faced(i) /\ ~GoesOn(i)})

\* C5: at each level (game, set, match) a faced opportunity is counted as
\* saved iff a later point of the same group exists in the ordered point
\* log, and as converted otherwise, whatever the row order of the input.
C5_SavedIffLaterPointInGroup ==
    pc = "built" =>
        \A k \in DOMAIN df_stats :
            LET m == df_stats[k].match_id
                o == df_stats[k]
            IN  /\ o.game_points_faced_team_1 # NaN =>
                      /\ Resolved(m, o.game_points_faced_team_1, o.game_points_saved_team_1,
                                  GamePointFor2, GameGoesOn)
                      /\ Resolved(m, o.game_points_faced_team_2, o.game_points_saved_team_2,
                                  GamePointFor1, GameGoesOn)
                /\ o.set_points_faced_team_1 # NaN =>
                      /\ Resolved(m, o.set_points_faced_team_1, o.set_points_saved_team_1,
                                  SetPointFor2, SetGoesOn)
                      /\ Resolved(m, o.set_points_faced_team_2, o.set_points_saved_team_2,
                                  SetPointFor1, SetGoesOn)
                /\ o.match_points_faced_team_1 # NaN =>
                      /\ Resolved(m, o.match_points_faced_team_1, o.match_points_saved_team_1,
                                  LAMBDA i : MatchPointFor2(i, DefaultSetsToWin), MatchGoesOn)
                      /\ Resolved(m, o.match_points_faced_team_2, o.match_points_saved_team_2,
                                  LAMBDA i : MatchPointFor1(i, DefaultSetsToWin), MatchGoesOn)

\* The point log was read out of order and, in one match, a game point, a
\* set point and a match point were saved and another one of each converted.
C5_Witness ==
    /\ pc = "built"
    /\ \E i, j \in DOMAIN df_scores : i < j /\ KeyLess(df_scores[j], df_scores[i])
    /\ \E k \in DOMAIN df_stats :
          /\ df_stats[k].game_points_faced_team_2 # NaN
          /\ df_stats[k].game_points_saved_team_2 >= 1
          /\ df_stats[k].game_points_faced_team_2 > df_stats[k].game_points_saved_team_2
          /\ df_stats[k].set_points_saved_team_2 >= 1
          /\ df_stats[k].set_points_faced_team_2 > df_stats[k].set_points_saved_team_2
          /\ df_stats[k].match_points_saved_team_2 >= 1
          /\ df_stats[k].match_points_faced_team_2 > df_stats[k].match_points_saved_team_2

\* a >= b on two metric values: no comparison with a missing value holds.
Geq(a, b) == a # NaN /\ b # NaN /\ a >= b

\* C6: in every output row, points faced >= points saved for each team at
\* the game, set and match level.
C6_FacedGeqSaved ==
    pc = "built" =>
        \A k \in DOMAIN df_stats :
            LET o == df_stats[k]
            IN  /\ Geq(o.game_points_faced_team_1, o.game_points_saved_team_1)
                /\ Geq(o.game_points_faced_team_2, o.game_points_saved_team_2)
                /\ Geq(o.set_points_faced_team_1, o.set_points_saved_team_1)
                /\ Geq(o.set_points_faced_team_2, o.set_points_saved_team_2)
                /\ Geq(o.match_points_faced_team_1, o.match_points_saved_team_1)
                /\ Geq(o.match_points_faced_team_2, o.match_points_saved_team_2)

\* C7: in every output row the four deuce buckets add up to total_games.
C7_DeuceBucketsPartitionGames ==
    pc = "built" =>
        \A k \in DOMAIN df_stats :
            LET o == df_stats[k]
            IN  /\ o.total_games # NaN
                /\ \A c \in {"games_0_deuce", "games_1_deuce", "games_2_deuces",
                             "games_3plus_deuces"} : o[c] # NaN
                /\ o.games_0_deuce + o.games_1_deuce + o.games_2_deuces
                   + o.games_3plus_deuces = o.total_games

\* C8: every match of the match list has an output row whose total_points
\* is the number of its point records and whose total_games is the number
\* of its distinct (set_number, game_number) pairs.
C8_TotalsCountPointsAndGames ==
    pc = "built" =>
        \A n \in DOMAIN df_matches :
            LET m == df_matches[n].id
            IN  /\ StatsRowsOf(m) # {}
                /\ \A k \in StatsRowsOf(m) :
                      /\ df_stats[k].total_points = Cardinality(PointsOfMatch(m))
                      /\ df_stats[k].total_games = Cardinality(GamesOf(df_scores, m))

\* C9: at the deciding point selected for a tie-break game the two winner
\* flags are never both true, so a match's tie-breaks won by both teams
\* number at most its tie-break games.
C9_TieBreakWinnersExclusive ==
    pc = "built" =>
        /\ \A i \in DOMAIN tb_last(df_scores) :
              ~(tb_last(df_scores)[i].team_1_won_tb /\ tb_last(df_scores)[i].team_2_won_tb)
        /\ \A k \in DOMAIN df_stats :
              df_stats[k].match_id # NaN =>
                  df_stats[k].tie_breaks_won_team_1 + df_stats[k].tie_breaks_won_team_2
                      <= Cardinality(TieBreakGamesOf(df_stats[k].match_id))

\* A deciding point with numeric scores was selected and one team won the
\* tie-break.
C9_Witness ==
    /\ pc = "built"
    /\ \E i \in DOMAIN tb_last(df_scores) :
          /\ to_numeric(tb_last(df_scores)[i].point_score_team_1) # NaN
          /\ to_numeric(tb_last(df_scores)[i].point_score_team_2) # NaN
          /\ tb_last(df_scores)[i].team_2_won_tb
    /\ \E k \in DOMAIN df_stats :
          df_stats[k].tie_breaks_won_team_1 + df_stats[k].tie_breaks_won_team_2 = 1

\* C10: in the row of every match with points, game_points_faced_team_X is
\* the number of the match's regular-game points at which the opponent's
\* score is "A", or "40" with X's score in {"0","15","30"}; tie-break
\* points add nothing to it.
C10_GamePointsFacedCountRegularGamePoints ==
    pc = "built" =>
        \A k \in DOMAIN df_stats :
            df_stats[k].match_id # NaN =>
                LET P == PointsOfMatch(df_stats[k].match_id)
                    S == df_scores
                IN  /\ df_stats[k].game_points_faced_team_1 =
                          Cardinality({i \in P :
                              /\ ~S[i].is_tiebreak
                              /\ \/ S[i].point_score_team_2 = "A"
                                 \/ /\ S[i].point_score_team_2 = "40"
                                    /\ S[i].point_score_team_1 \in {"0", "15", "30"}})
                    /\ df_stats[k].game_points_faced_team_2 =
                          Cardinality({i \in P :
                              /\ ~S[i].is_tiebreak
                              /\ \/ S[i].point_score_team_1 = "A"
                                 \/ /\ S[i].point_score_team_1 = "40"
                                    /\ S[i].point_score_team_2 \in {"0", "15", "30"}})

\* The set-point rule for the team with the "own" tokens on row r: in a
\* regular game a game point with the set-game counts at 5 against <= 4 or
\* at 6 against 5; in a tie-break game the tie-break rule, whatever the
\* set-game counts.
SetPointRule(r, p_own, p_opp, g_own, g_opp) ==
    IF r.is_tiebreak
    THEN TakesTieBreak(p_own, p_opp)
    ELSE /\ \/ p_own = "A"
            \/ (p_own = "40" /\ p_opp \in {"0", "15", "30"})
         /\ \/ (to_numeric(g_own) = 5 /\ to_numeric(g_opp) \in 0..4)
            \/ (to_numeric(g_own) = 6 /\ to_numeric(g_opp) = 5)

SetPointRule1(r) ==
    SetPointRule(r, r.point_score_team_1, r.point_score_team_2,
                 r.game_score_team_1, r.game_score_team_2)

SetPointRule2(r) ==
    SetPointRule(r, r.point_score_team_2, r.point_score_team_1,
                 r.game_score_team_2, r.game_score_team_1)

\* C11: at every point the set-point flag of each team is the set-point
\* rule on the point's pre-point tokens, and no other point is a set point:
\* the set points a match's teams face are exactly the points the rule gives
\* their opponent.
C11_SetPointFlagIsRule ==
    pc = "built" =>
        /\ \A i \in DOMAIN add_set_point_flqgs(df_scores) :
              LET r == add_set_point_flqgs(df_scores)[i]
              IN  /\ r.sp_for_t1 = SetPointRule1(r)
                  /\ r.sp_for_t2 = SetPointRule2(r)
        /\ \A k \in DOMAIN df_stats :
              df_stats[k].match_id # NaN =>
                  LET P == PointsOfMatch(df_stats[k].match_id)
                  IN  /\ df_stats[k].set_points_faced_team_2 =
                            Cardinality({i \in P : SetPointRule1(df_scores[i])})
                      /\ df_stats[k].set_points_faced_team_1 =
                            Cardinality({i \in P : SetPointRule2(df_scores[i])})

\* The statistics were built from a regular point at which team 1 serves
\* for the set at 6-5 with a game point, and team 2 faces one set point.
C11_Witness ==
    /\ pc = "built"
    /\ \E i \in DOMAIN add_set_point_flqgs(df_scores) :
          LET r == add_set_point_flqgs(df_scores)[i]
          IN  /\ ~r.is_tiebreak
              /\ r.game_score_team_1 = "6"
              /\ r.game_score_team_2 = "5"
              /\ r.sp_for_t1
    /\ \E k \in DOMAIN df_stats : df_stats[k].set_points_faced_team_2 = 1

\* A token of row r that arithmetic is done on cannot be coerced to a
\* number: a tie-break point score, a set-game count of a regular game, or
\* a sets-won count.
MalformedScoreToken(r) ==
    \/ /\ r.is_tiebreak
       /\ NaN \in {to_numeric(r.point_score_team_1), to_numeric(r.point_score_team_2)}
    \/ /\ ~r.is_tiebreak
       /\ NaN \in {to_numeric(r.game_score_team_1), to_numeric(r.game_score_team_2)}
    \/ NaN \in {to_numeric(r.set_score_team_1), to_numeric(r.set_score_team_2)}

\* C12: a point with a score token that cannot be coerced where arithmetic
\* is required counts as no game point, no set point and no match point,
\* for neither team and for every value of sets_to_win.
C12_MalformedTokenGivesNoFlag ==
    pc = "built" =>
        /\ \A i \in DOMAIN game_points_dfp(df_scores) :
              LET r == game_points_dfp(df_scores)[i]
              IN  MalformedScoreToken(r) => ~r.gp_faced_t1 /\ ~r.gp_faced_t2
        /\ \A i \in DOMAIN add_set_point_flqgs(df_scores) :
              LET r == add_set_point_flqgs(df_scores)[i]
              IN  MalformedScoreToken(r) => ~r.sp_for_t1 /\ ~r.sp_for_t2
        /\ \A w \in SetsToWin : \A i \in DOMAIN match_points_dfp(df_scores, w) :
              LET r == match_points_dfp(df_scores, w)[i]
              IN  MalformedScoreToken(r) => ~r.mp_for_t1 /\ ~r.mp_for_t2

\* The point numbers of game g of match m are the run 1..n, each once.
ContiguousGame(m, g) ==
    LET P == {i \in PointsOfMatch(m) :
                 <<df_scores[i].set_number, df_scores[i].game_number>> = g}
    IN  {df_scores[i].point_number : i \in P} = 1..Cardinality(P)

ContiguousLog(m) == \A g \in GamesOf(df_scores, m) : ContiguousGame(m, g)

\* C13: a point log with a gap or a duplicate in the point numbers of some
\* game is surfaced as a fault: no statistics are returned for a match whose
\* log is not contiguous.
C13_OrderingViolationSurfaced ==
    pc = "built" =>
        \A k \in DOMAIN df_stats :
            df_stats[k].match_id # NaN => ContiguousLog(df_stats[k].match_id)

\* No matches or no points were supplied.
EmptyInput == df_matches = <<>> \/ df_scores = <<>>

C15_FailedRunPersistsNothing ==
    pc = "exit" =>
        /\ exit_code # 0 =>
              /\ gold = gold_at_start
              /\ sheet = sheet_values(gold_at_start)
        /\ (gold = gold_at_start) <=> (sheet = sheet_values(gold_at_start))

\* The row of match m shows 0 in every column of cols.
ZeroIn(m, cols) ==
    /\ StatsRowsOf(m) # {}
    /\ \A k \in StatsRowsOf(m) : \A c \in cols : df_stats[k][c] = 0

\* C16: for every match with at least one point, a metric without a
\* qualifying point is 0, not missing: the tie-break metrics of a match
\* without tie-break point, total_deuces of a match without deuce point,
\* the game-point metrics of a match without regular-game point.
C16_NoQualifyingPointGivesZero ==
    pc = "built" =>
        \A n \in DOMAIN df_matches :
            LET m == df_matches[n].id
                P == PointsOfMatch(m)
            IN  P # {} =>
                    /\ (\A i \in P : ~df_scores[i].is_tiebreak) => ZeroIn(m, TiebreakCols)
                    /\ (\A i \in P : ~df_scores[i].is_deuce) => ZeroIn(m, {"total_deuces"})
                    /\ (\A i \in P : df_scores[i].is_tiebreak) => ZeroIn(m, GamePointCols)

\* The pre-point score of a point of a regular game is 40-40.
DeuceByTokens(r) ==
    /\ ~r.is_tiebreak
    /\ r.point_score_team_1 = "40"
    /\ r.point_score_team_2 = "40"

\* C17: total_deuces of a match with points is the number of its
\* regular-game points whose pre-point score tokens are 40-40; nothing but
\* the score tokens decides whether a point is a deuce point.
C17_TotalDeucesFromTokens ==
    pc = "built" =>
        \A k \in DOMAIN df_stats :
            df_stats[k].match_id # NaN =>
                df_stats[k].total_deuces =
                    Cardinality({i \in PointsOfMatch(df_stats[k].match_id) :
                                    DeuceByTokens(df_scores[i])})

\* The output row of the n-th match of the match list when build_stats runs
\* on the shard that holds this match alone: its record and its points.
ShardRow(n) ==
    build_stats(<< df_matches[n] >>, RowsOf(df_scores, df_matches[n].id))[1]

\* C18: the output row of a match is a function of the match's own record
\* and points: it is the row build_stats gives on the shard of that match
\* alone, whatever other matches and points the batch holds (a match
\* without points has the row without values in any batch).
C18_MatchRowFromOwnData ==
    pc = "built" =>
        /\ Len(df_stats) = Len(df_matches)
        /\ \A n \in DOMAIN df_matches :
              IF PointsOfMatch(df_matches[n].id) # {}
              THEN df_stats[n] = ShardRow(n)
              ELSE \A c \in MetricCols \cup {"match_id"} : df_stats[n][c] = NaN

\* Two matches were processed in one batch, both with points; the first
\* converted a match point on its last point, and points of the second
\* follow it in the table.
C18_Witness ==
    /\ pc = "built"
    /\ Len(df_matches) = 2
    /\ \A n \in DOMAIN df_matches : PointsOfMatch(df_matches[n].id) # {}
    /\ df_stats[1].match_points_faced_team_2 = 1
    /\ df_stats[1].match_points_saved_team_2 = 0

\* The opportunities both teams faced and did not save number at most
\* bound; no comparison with a missing value holds.
ConvertedAtMost(faced_1, saved_1, faced_2, saved_2, bound) ==
    /\ NaN \notin {faced_1, saved_1, faced_2, saved_2}
    /\ (faced_1 - saved_1) + (faced_2 - saved_2) <= bound

\* The sets and the regular games of match m.
SetsOf(m) == {df_scores[i].set_number : i \in PointsOfMatch(m)}

RegularGamesOf(m) ==
    {<<df_scores[i].set_number, df_scores[i].game_number>> :
        i \in {k \in PointsOfMatch(m) : ~df_scores[k].is_tiebreak}}

\* The log of match m is one the scoring rules allow as far as the rows
\* read can tell: the point numbers of every game are the run 1..n, and the
\* match has points of a regular game (a match starts with regular games;
\* the score states of the point rows read are all reachable ones).
PlayedByTheRules(m) ==
    /\ m # NaN
    /\ ContiguousLog(m)
    /\ RegularGamesOf(m) # {}

OneTieBreakPerSet(m) ==
    \A g, h \in TieBreakGamesOf(m) : g[1] = h[1] => g = h

\* Tie-break game g of match m was played to completion: its last point
\* gives the tie-break to one of the teams.
PlayedToCompletion(m, g) ==
    LET r == df_scores[LastPointOf(m, g)]
    IN  \/ TakesTieBreak(r.point_score_team_1, r.point_score_team_2)
        \/ TakesTieBreak(r.point_score_team_2, r.point_score_team_1)

\* C20: for every match with points and at most one tie-break game per
\* set, the tie-breaks won by the two teams number at most
\* sets_with_tiebreak, and exactly sets_with_tiebreak when every tie-break
\* game was played to completion.
C20_TieBreaksWonMatchSets ==
    pc = "built" =>
        \A k \in DOMAIN df_stats :
            LET o == df_stats[k]
                m == df_stats[k].match_id
            IN  (m # NaN /\ OneTieBreakPerSet(m)) =>
                    /\ NaN \notin {o.tie_breaks_won_team_1, o.tie_breaks_won_team_2,
                                   o.sets_with_tiebreak}
                    /\ o.tie_breaks_won_team_1 + o.tie_breaks_won_team_2
                          <= o.sets_with_tiebreak
                    /\ (\A g \in TieBreakGamesOf(m) : PlayedToCompletion(m, g)) =>
                          o.tie_breaks_won_team_1 + o.tie_breaks_won_team_2
                              = o.sets_with_tiebreak

\* ------------------------------------------------------------------------
\* C21: the pipeline in incremental mode
\* ------------------------------------------------------------------------
\* The ids of the matches ingested into bronze.fact_match.
IngestedIds == {bronze_match[i].id : i \in DOMAIN bronze_match}

SilverRowsOf(m) == {i \in DOMAIN silver_match : silver_match[i].id = m}

GoldRowsOf(m) == {k \in DOMAIN gold : gold[k].match_id = m}

\* The statistics of match m computed from all of the points ingested for it.
StatsFromAllPoints(m) ==
    build_stats(SelectSeq(bronze_match, LAMBDA r : r.id = m), RowsOf(bronze_point, m))[1]

\* No ingested match is stored twice in silver.fact_match.
NotDuplicatedInSilver == \A m \in IngestedIds : Cardinality(SilverRowsOf(m)) <= 1

\* No ingested match has two rows in gold.match_stats.
NotDuplicatedInGold == \A m \in IngestedIds : Cardinality(GoldRowsOf(m)) <= 1

\* Every row of gold.match_stats holds the statistics of all the points of
\* its match.
GoldFromAllPoints ==
    \A k \in DOMAIN gold :
        /\ gold[k].match_id \in IngestedIds
        /\ \A c \in MetricCols : gold[k][c] = StatsFromAllPoints(gold[k].match_id)[c]

\* C21: in incremental mode, at every point of every interleaving of runs of
\* get-matches, transform-match-data and produce-match-stats, a match ingested
\* into bronze is stored at most once in silver.fact_match and has at most one
\* row in gold.match_stats, and every row of gold.match_stats is computed from
\* all of the points of its match.
C21_MatchStoredOnceFromAllPoints ==
    /\ NotDuplicatedInSilver
    /\ NotDuplicatedInGold
    /\ GoldFromAllPoints

====
